---- MODULE Spec2Model ----
(***************************************************************************)
(* Model of oslo.vmware's datastore objects                                *)
(* (src/oslo/vmware/objects/datastore.py): the Datastore handle and the    *)
(* DatastorePath value with construction, join, parent, rendering and      *)
(* parsing.                                                                *)
(*                                                                         *)
(* Python values are encoded as follows.                                   *)
(*   - a str is a sequence of one-character strings: "a/b" is              *)
(*     <<"a", "/", "b">>, '' is <<>>;                                      *)
(*   - a value that may be None is wrapped: None is <<>> and the value v   *)
(*     is <<v>> (Some(v)); so Some(<<>>) is the empty str and None is not; *)
(*   - an object is a record of its attributes plus a class field;         *)
(*   - the outcome of a call is [raised, value]: raised names the          *)
(*     exception class ("" when the call returned) and value wraps the     *)
(*     returned value.                                                     *)
(***************************************************************************)
EXTENDS Integers, Sequences, FiniteSets

VARIABLES
    obj,       \* the object the caller holds (None, or Some(object))
    call,      \* the most recent call: its name, its receiver before (self) and
               \* after (self_after) the call, its arguments and its outcome
    rendered   \* the receiver and result of a __str__ call whose text is
               \* the last value produced or has just been parsed, else None

vars == <<obj, call, rendered>>

----------------------------------------------------------------------------
(* Optional values and call outcomes *)

None == <<>>
Some(v) == <<v>>
The(o) == o[1]

Return(v) == [raised |-> "", value |-> Some(v)]
Raise(exc) == [raised |-> exc, value |-> None]

----------------------------------------------------------------------------
(* Bounds of the model *)

\* longest rel_path kept by join (longer results are not explored further)
MaxRelLen == 5
\* most components passed to one constructor, build_path or join call
MaxPaths == 2
\* longest text given to parse
MaxTextLen == 6
\* longest datastore name and longest relative path in the round trip
MaxPartLen == 2
\* largest capacity / free space in bytes
MaxBytes == 1

----------------------------------------------------------------------------
(* Python str and posixpath functions used by the module *)

\* the vertical tab U+000B and the unit separator U+001F
VT == ""
US == ""

\* characters str.strip() removes (str.isspace of a Python 3 str): U+0009 to
\* U+000D, U+001C to U+001F, the space, U+0085, U+00A0 and U+1680.  The other
\* characters with isspace (U+2000 to U+200A, U+2028, U+2029, U+202F, U+205F,
\* U+3000) cannot be written in a string of this language, so no text of the
\* model holds them.
Whitespace ==
    {"\t", "\n", VT, "\f", "\r", "", "", "", US, " ",
     "", " ", " "}

\* index of the first occurrence of character c in s, 0 when absent
Find(s, c) ==
    IF \E i \in 1..Len(s) : s[i] = c
    THEN CHOOSE i \in 1..Len(s) : s[i] = c /\ \A j \in 1..(i - 1) : s[j] # c
    ELSE 0

\* the split made at the last c instead of the first (rsplit)
split1_at_last(s, c) ==
    LET hits == {i \in 1..Len(s) : s[i] = c}
    IN  IF hits = {} THEN <<s>>
        ELSE LET i == CHOOSE i \in hits : \A j \in hits : j <= i
             IN  <<SubSeq(s, 1, i - 1), SubSeq(s, i + 1, Len(s))>>

\* s.split(c, 1): at most one split, at the first c
split1(s, c) ==
    LET i == Find(s, c)
    IN  IF i = 0 THEN <<s>>
        ELSE <<SubSeq(s, 1, i - 1), SubSeq(s, i + 1, Len(s))>>

\* only trailing whitespace removed (rstrip)
strip_right_only(s) ==
    LET keep == {i \in 1..Len(s) : s[i] \notin Whitespace}
    IN  IF keep = {} THEN <<>>
        ELSE SubSeq(s, 1, CHOOSE i \in keep : \A j \in keep : j <= i)

\* s.strip(): leading and trailing whitespace removed
strip(s) ==
    LET keep == {i \in 1..Len(s) : s[i] \notin Whitespace}
    IN  IF keep = {} THEN <<>>
        ELSE LET lo == CHOOSE i \in keep : \A j \in keep : i <= j
                 hi == CHOOSE i \in keep : \A j \in keep : j <= i
             IN  SubSeq(s, lo, hi)

\* a separator added even after a path that already ends in one
join_step_always_sep(path, b) ==
    IF Len(b) > 0 /\ b[1] = "/" THEN b
    ELSE IF path = <<>> THEN path \o b
    ELSE path \o <<"/">> \o b

\* the loop body of posixpath.join: path extended by component b
join_step(path, b) ==
    IF Len(b) > 0 /\ b[1] = "/" THEN b
    ELSE IF path = <<>> \/ path[Len(path)] = "/" THEN path \o b
    ELSE path \o <<"/">> \o b

\* posixpath.join(a, *p)
RECURSIVE posixpath_join(_, _)
posixpath_join(a, p) ==
    IF p = <<>> THEN a
    ELSE posixpath_join(join_step(a, Head(p)), Tail(p))

\* index of the last "/" in p, 0 when absent (p.rfind('/') + 1)
RFind(p) ==
    IF \E i \in 1..Len(p) : p[i] = "/"
    THEN CHOOSE i \in 1..Len(p) : p[i] = "/" /\ \A j \in (i + 1)..Len(p) : p[j] # "/"
    ELSE 0

\* posixpath.basename(p)
posixpath_basename(p) == SubSeq(p, RFind(p) + 1, Len(p))

\* head.rstrip('/')
RECURSIVE rstrip_sep(_)
rstrip_sep(s) ==
    IF s # <<>> /\ s[Len(s)] = "/" THEN rstrip_sep(SubSeq(s, 1, Len(s) - 1))
    ELSE s

\* dirname that keeps the separator before the final segment
posixpath_dirname_keep_sep(p) == SubSeq(p, 1, RFind(p))

\* posixpath.dirname(p)
posixpath_dirname(p) ==
    LET head == SubSeq(p, 1, RFind(p))
    IN  IF head # <<>> /\ \E i \in 1..Len(head) : head[i] # "/"
        THEN rstrip_sep(head)
        ELSE head

----------------------------------------------------------------------------
(* class DatastorePath *)

\* the components of a call's *paths with the wrapping removed
Unwrap(paths) == [i \in 1..Len(paths) |-> The(paths[i])]

\* None in paths
HasNone(paths) == \E i \in 1..Len(paths) : paths[i] = None

Path(name, rel) ==
    [class |-> "DatastorePath", datastore_name |-> name, rel_path |-> rel]

\* the constructor without its test for the empty name
DatastorePath_init_none_only(datastore_name, paths) ==
    IF datastore_name = None
    THEN Raise("ValueError")
    ELSE IF paths # <<>> /\ HasNone(paths)
    THEN Raise("ValueError")
    ELSE Return(Path(The(datastore_name),
                     IF paths # <<>>
                     THEN posixpath_join(The(Head(paths)), Unwrap(Tail(paths)))
                     ELSE <<>>))

\* DatastorePath.__init__(datastore_name, *paths)
DatastorePath_init(datastore_name, paths) ==
    IF datastore_name = None \/ datastore_name = Some(<<>>)
    THEN Raise("ValueError")
    ELSE IF paths # <<>> /\ HasNone(paths)
    THEN Raise("ValueError")
    ELSE Return(Path(The(datastore_name),
                     IF paths # <<>>
                     THEN posixpath_join(The(Head(paths)), Unwrap(Tail(paths)))
                     ELSE <<>>))

\* rendering with no space after the closing bracket
DatastorePath_str_no_space(self) ==
    <<"[">> \o self.datastore_name \o <<"]">> \o self.rel_path

\* DatastorePath.__str__
DatastorePath_str(self) ==
    IF self.rel_path # <<>>
    THEN <<"[">> \o self.datastore_name \o <<"]", " ">> \o self.rel_path
    ELSE <<"[">> \o self.datastore_name \o <<"]">>

\* DatastorePath.parent
parent(self) ==
    DatastorePath_init(Some(self.datastore_name),
                       <<Some(posixpath_dirname(self.rel_path))>>)

\* DatastorePath.basename
basename(self) == posixpath_basename(self.rel_path)

\* DatastorePath.dirname
dirname(self) == posixpath_dirname(self.rel_path)

\* the read-only properties datastore, rel_path, basename, dirname
DatastorePath_get(self, attr) ==
    CASE attr = "datastore" -> self.datastore_name
      [] attr = "rel_path" -> self.rel_path
      [] attr = "basename" -> basename(self)
      [] attr = "dirname" -> dirname(self)

\* join that builds the new path from the components alone
join_without_self(self, paths) ==
    IF paths # <<>>
    THEN IF HasNone(paths) THEN Raise("ValueError")
         ELSE DatastorePath_init(Some(self.datastore_name), paths)
    ELSE Return(self)

\* DatastorePath.join(*paths)
join(self, paths) ==
    IF paths # <<>>
    THEN IF HasNone(paths) THEN Raise("ValueError")
         ELSE DatastorePath_init(Some(self.datastore_name),
                                 <<Some(self.rel_path)>> \o paths)
    ELSE Return(self)

\* equality that compares the datastore names alone
DatastorePath_eq_name_only(self, other) ==
    /\ other.class = "DatastorePath"
    /\ self.datastore_name = other.datastore_name

\* DatastorePath.__eq__(other)
DatastorePath_eq(self, other) ==
    /\ other.class = "DatastorePath"
    /\ self.datastore_name = other.datastore_name
    /\ self.rel_path = other.rel_path

\* DatastorePath.parse(datastore_path)
parse(datastore_path) ==
    IF datastore_path = None \/ datastore_path = Some(<<>>)
    THEN Raise("ValueError")
    ELSE LET outer == split1(The(datastore_path), "[")
         IN  IF Len(outer) < 2 THEN Raise("IndexError")
             ELSE LET spl == split1(outer[2], "]")
                      datastore_name == spl[1]
                      path == IF Len(spl) = 1 THEN <<>> ELSE spl[2]
                  IN  DatastorePath_init(Some(datastore_name), <<Some(strip(path))>>)

----------------------------------------------------------------------------
(* class Datastore *)

\* the constructor comparing with <= : a full datastore is rejected
Datastore_init_le(ref, name, capacity, freespace) ==
    IF name = None THEN Raise("ValueError")
    ELSE IF ref = None THEN Raise("ValueError")
    ELSE IF freespace # None /\ capacity = None THEN Raise("ValueError")
    ELSE IF capacity # None /\ freespace # None /\ The(capacity) <= The(freespace)
    THEN Raise("ValueError")
    ELSE Return([class |-> "Datastore", ref |-> The(ref), name |-> The(name),
                 capacity |-> capacity, freespace |-> freespace])

\* Datastore.__init__(ref, name, capacity=None, freespace=None)
Datastore_init(ref, name, capacity, freespace) ==
    IF name = None THEN Raise("ValueError")
    ELSE IF ref = None THEN Raise("ValueError")
    ELSE IF freespace # None /\ capacity = None THEN Raise("ValueError")
    ELSE IF capacity # None /\ freespace # None /\ The(capacity) < The(freespace)
    THEN Raise("ValueError")
    ELSE Return([class |-> "Datastore", ref |-> The(ref), name |-> The(name),
                 capacity |-> capacity, freespace |-> freespace])

\* the read-only properties ref, name, capacity, freespace
Datastore_get(self, attr) ==
    CASE attr = "ref" -> Some(self.ref)
      [] attr = "name" -> Some(self.name)
      [] attr = "capacity" -> self.capacity
      [] attr = "freespace" -> self.freespace

\* build_path that forgets its components
build_path_without_paths(self, paths) == DatastorePath_init(Some(self.name), <<>>)

\* Datastore.build_path(*paths)
build_path(self, paths) == DatastorePath_init(Some(self.name), paths)

----------------------------------------------------------------------------
(* Arguments the calls are explored with *)

\* every str over chars of length at most n
RECURSIVE Strs(_, _)
Strs(chars, n) ==
    IF n = 0 THEN {<<>>}
    ELSE LET shorter == Strs(chars, n - 1)
         IN  shorter \cup {Append(s, c) : s \in shorter, c \in chars}

\* every sequence over S of length at most n
RECURSIVE SeqsUpTo(_, _)
SeqsUpTo(S, n) ==
    IF n = 0 THEN {<<>>}
    ELSE LET shorter == SeqsUpTo(S, n - 1)
         IN  shorter \cup {Append(s, x) : s \in shorter, x \in S}

Opt(S) == {None} \cup {Some(v) : v \in S}

\* datastore names: absent, empty, plain
NameArgs == Opt({<<>>, <<"d", "s">>})

\* path components: absent, empty, relative, absolute
Components == Opt({<<>>, <<"a">>, <<"a", "/", "b">>, <<"/", "c", "/", "d">>})

PathArgs == SeqsUpTo(Components, MaxPaths)

RefArgs == Opt({"datastore-1"})

ByteArgs == Opt(0..MaxBytes)

\* the constructor calls of the documentation's examples:
\* DatastorePath("datastore1", "_base/foo", "foo.vmdk") and
\* DatastorePath("ds", "a/b/c.txt")
DocExamples ==
    {<<Some(<<"d", "a", "t", "a", "s", "t", "o", "r", "e", "1">>),
       <<Some(<<"_", "b", "a", "s", "e", "/", "f", "o", "o">>),
         Some(<<"f", "o", "o", ".", "v", "m", "d", "k">>)>>>>,
     <<Some(<<"d", "s">>),
       <<Some(<<"a", "/", "b", "/", "c", ".", "t", "x", "t">>)>>>>}

\* values compared with the path p: p's own value, paths that differ from it
\* in the datastore name or by a trailing "/", two fixed paths, and values of
\* other types (the str rendering of p, None, a Datastore named like p)
EqArgs(p) ==
    <<p,
      Path(p.datastore_name, p.rel_path \o <<"/">>),
      Path(p.datastore_name \o <<"s">>, p.rel_path),
      Path(<<"d", "s">>, <<"a">>),
      Path(<<"d", "s">>, <<"a", "/", "b">>),
      [class |-> "str", value |-> DatastorePath_str(p)],
      [class |-> "NoneType"],
      The(Datastore_init(Some("datastore-1"), Some(p.datastore_name), None, None).value)>>

\* texts given to parse beside the rendered ones
ParseSamples ==
    Opt({<<>>, <<"a">>, <<"[", "a", "]">>, <<"[", "b", "]", "a">>,
         <<"[", "a", "]", " ", "/", "a">>, <<"[", "]", "a">>,
         <<"a", "[", "b">>, <<"a", "/", "a">>,
         <<"[", "a", "]", " ", VT, "b", US>>, <<"[", "a", "]", VT>>})

\* characters of the texts parse is explored with exhaustively
TextChars == {"a", "[", "]", " "}
TextArgs ==
    Opt(Strs(TextChars, MaxTextLen)
        \cup {<<"[", "a", "]", " ", VT, "a", US>>, <<"[", "a", "]", VT>>,
              <<"[", VT, "]", "a", VT, "a">>})

\* names and relative paths rendered and parsed back
RoundTripNames == Strs({"a", "[", "]", " "}, MaxPartLen)
RoundTripRels ==
    Strs({"a", "/", "]", " "}, MaxPartLen) \cup {<<VT, "a">>, <<"a", US>>, <<"a", VT, "a">>}

----------------------------------------------------------------------------
(* The calls *)

NoCall == [op |-> "none"]

IsPath(o) == o # None /\ The(o).class = "DatastorePath"
IsDatastore(o) == o # None /\ The(o).class = "Datastore"

Init ==
    /\ obj = None
    /\ call = NoCall
    /\ rendered = None

\* the caller holds nothing and has made no call since it last did
Fresh == obj = None /\ call = NoCall

\* p = DatastorePath(datastore_name, *paths)
New_DatastorePath(datastore_name, paths) ==
    /\ Fresh
    /\ LET r == DatastorePath_init(datastore_name, paths)
       IN  /\ call' = [op |-> "DatastorePath", self |-> None, self_after |-> None,
                       args |-> [datastore_name |-> datastore_name, paths |-> paths],
                       raised |-> r.raised, value |-> r.value]
           /\ obj' = r.value
    /\ rendered' = None

\* d = Datastore(ref, name, capacity, freespace)
New_Datastore(ref, name, capacity, freespace) ==
    /\ Fresh
    /\ LET r == Datastore_init(ref, name, capacity, freespace)
       IN  /\ call' = [op |-> "Datastore", self |-> None, self_after |-> None,
                       args |-> [ref |-> ref, name |-> name,
                                 capacity |-> capacity, freespace |-> freespace],
                       raised |-> r.raised, value |-> r.value]
           /\ obj' = r.value
    /\ rendered' = None

\* d.ref, d.name, d.capacity, d.freespace
Get_attr(attr) ==
    /\ IsDatastore(obj)
    /\ call' = [op |-> attr, self |-> obj, self_after |-> obj, args |-> <<>>,
                raised |-> "", value |-> Datastore_get(The(obj), attr)]
    /\ rendered' = None
    /\ UNCHANGED obj

\* p.datastore, p.rel_path, p.basename, p.dirname
Get_path_attr(attr) ==
    /\ IsPath(obj)
    /\ call' = [op |-> attr, self |-> obj, self_after |-> obj, args |-> <<>>,
                raised |-> "", value |-> Some(DatastorePath_get(The(obj), attr))]
    /\ rendered' = None
    /\ UNCHANGED obj

\* p = d.build_path(*paths)
Build_path(paths) ==
    /\ IsDatastore(obj)
    /\ LET r == build_path(The(obj), paths)
       IN  /\ call' = [op |-> "build_path", self |-> obj, self_after |-> obj,
                       args |-> [paths |-> paths],
                       raised |-> r.raised, value |-> r.value]
           /\ obj' = IF r.raised = "" THEN r.value ELSE obj
    /\ rendered' = None

\* p = p.join(*paths)
Join(paths) ==
    /\ IsPath(obj)
    /\ LET r == join(The(obj), paths)
       IN  /\ r.raised = "" => Len(The(r.value).rel_path) <= MaxRelLen
           /\ call' = [op |-> "join", self |-> obj, self_after |-> obj,
                       args |-> [paths |-> paths],
                       raised |-> r.raised, value |-> r.value]
           /\ obj' = IF r.raised = "" THEN r.value ELSE obj
    /\ rendered' = None

\* p = p.parent
Parent ==
    /\ IsPath(obj)
    /\ LET r == parent(The(obj))
       IN  /\ call' = [op |-> "parent", self |-> obj, self_after |-> obj, args |-> <<>>,
                       raised |-> r.raised, value |-> r.value]
           /\ obj' = IF r.raised = "" THEN r.value ELSE obj
    /\ rendered' = None

\* p == other
Eq(other) ==
    /\ IsPath(obj)
    /\ call' = [op |-> "__eq__", self |-> obj, self_after |-> obj, args |-> <<other>>,
                raised |-> "", value |-> Some(DatastorePath_eq(The(obj), other))]
    /\ rendered' = None
    /\ UNCHANGED obj

\* s = str(p)
Str ==
    /\ IsPath(obj)
    /\ LET s == DatastorePath_str(The(obj))
       IN  /\ call' = [op |-> "__str__", self |-> obj, self_after |-> obj, args |-> <<>>,
                       raised |-> "", value |-> Some(s)]
           /\ rendered' = Some([self |-> The(obj), text |-> s])
    /\ UNCHANGED obj

\* p = DatastorePath.parse(datastore_path)
Parse(datastore_path) ==
    /\ LET r == parse(datastore_path)
       IN  /\ call' = [op |-> "parse", self |-> None, self_after |-> None,
                       args |-> [datastore_path |-> datastore_path],
                       raised |-> r.raised, value |-> r.value]
           /\ obj' = IF r.raised = "" THEN r.value ELSE obj
    /\ UNCHANGED rendered

\* the caller drops the object it holds
Discard ==
    /\ obj # None \/ call # NoCall
    /\ obj' = None
    /\ call' = NoCall
    /\ rendered' = None

\* the text of the last __str__ call, when it is the last value produced
RenderedText == IF call.op = "__str__" THEN {call.value} ELSE {}

----------------------------------------------------------------------------
(* Specifications *)

\* the objects' life: construction, build_path, join, parent, str, parse
Next ==
    \/ \E n \in NameArgs, ps \in PathArgs : New_DatastorePath(n, ps)
    \/ \E ex \in DocExamples : New_DatastorePath(ex[1], ex[2])
    \/ \E r \in RefArgs, n \in NameArgs, c \in ByteArgs, f \in ByteArgs :
          New_Datastore(r, n, c, f)
    \/ \E a \in {"ref", "name", "capacity", "freespace"} : Get_attr(a)
    \/ \E a \in {"datastore", "rel_path", "basename", "dirname"} : Get_path_attr(a)
    \/ \E ps \in PathArgs : Build_path(ps)
    \/ \E ps \in PathArgs : Join(ps)
    \/ Parent
    \/ IsPath(obj) /\ \E i \in 1..Len(EqArgs(The(obj))) : Eq(EqArgs(The(obj))[i])
    \/ Str
    \/ \E s \in (IF Fresh THEN ParseSamples ELSE RenderedText) : Parse(s)
    \/ Discard

Spec == Init /\ [][Next]_vars

\* parse over every short text, and rendering followed by parsing
TextNext ==
    \/ \E n \in RoundTripNames, p \in RoundTripRels :
          New_DatastorePath(Some(n), <<Some(p)>>)
    \/ Str
    \/ \E s \in (IF Fresh THEN TextArgs ELSE RenderedText) : Parse(s)
    \/ Discard

TextSpec == Init /\ [][TextNext]_vars

----------------------------------------------------------------------------
(* Vocabulary of the properties *)

Contains(s, c) == \E i \in 1..Len(s) : s[i] = c

\* s has neither leading nor trailing whitespace
NoEdgeWhitespace(s) ==
    s = <<>> \/ (s[1] \notin Whitespace /\ s[Len(s)] \notin Whitespace)

\* r is s with its leading and trailing whitespace trimmed
IsTrimOf(r, s) ==
    /\ NoEdgeWhitespace(r)
    /\ \E lo \in 1..(Len(s) + 1) : \E hi \in (lo - 1)..Len(s) :
          /\ r = SubSeq(s, lo, hi)
          /\ \A i \in 1..(lo - 1) : s[i] \in Whitespace
          /\ \A i \in (hi + 1)..Len(s) : s[i] \in Whitespace

\* the call parsed the text of the preceding __str__ call
ParsedRendered ==
    /\ call.op = "parse"
    /\ rendered # None
    /\ call.args.datastore_path = Some(The(rendered).text)

----------------------------------------------------------------------------
(* C1: round trip through str and parse *)

\* C1 as stated: for every path p with a non-empty datastore name and a
\* rel_path without leading or trailing whitespace, parse(str(p)) returns a
\* path equal to p.
C1_RoundTrip_AsStated ==
    (/\ ParsedRendered
     /\ The(rendered).self.datastore_name # <<>>
     /\ NoEdgeWhitespace(The(rendered).self.rel_path))
    => /\ call.raised = ""
       /\ call.value # None
       /\ DatastorePath_eq(The(call.value), The(rendered).self)

\* C1 amended: for every path p whose datastore name is non-empty and holds
\* no "]" and whose rel_path has no leading or trailing whitespace,
\* parse(str(p)) returns a path equal to p.
C1_RoundTrip ==
    (/\ ParsedRendered
     /\ The(rendered).self.datastore_name # <<>>
     /\ ~Contains(The(rendered).self.datastore_name, "]")
     /\ NoEdgeWhitespace(The(rendered).self.rel_path))
    => /\ call.raised = ""
       /\ call.value # None
       /\ DatastorePath_eq(The(call.value), The(rendered).self)

\* a rendered path with "[" and a space in its name and "]" in its non-empty
\* rel_path has been parsed back
C1_Witness ==
    /\ ParsedRendered
    /\ The(rendered).self = Path(<<"[", " ">>, <<"/", "]">>)
    /\ call.raised = ""

----------------------------------------------------------------------------
(* C4: parse of a text without a datastore name part *)

\* C4 as stated: parse raises ValueError, and returns nothing, for every
\* argument that is None, empty or without any "[".
C4_ParseRejects_AsStated ==
    (/\ call.op = "parse"
     /\ \/ call.args.datastore_path = None
        \/ ~Contains(The(call.args.datastore_path), "["))
    => /\ call.raised = "ValueError"
       /\ call.value = None

----------------------------------------------------------------------------
(* C7: what parse extracts *)

\* the first "[" of text and the first "]" after it (0 when there is none)
OpenAt(text) == CHOOSE i \in 1..Len(text) :
                    text[i] = "[" /\ \A j \in 1..(i - 1) : text[j] # "["
CloseAt(text) ==
    LET after == {j \in (OpenAt(text) + 1)..Len(text) : text[j] = "]"}
    IN  IF after = {} THEN 0 ELSE CHOOSE j \in after : \A k \in after : j <= k

\* the text between the brackets, and the text after the closing one
NamePart(text) ==
    IF CloseAt(text) = 0 THEN SubSeq(text, OpenAt(text) + 1, Len(text))
    ELSE SubSeq(text, OpenAt(text) + 1, CloseAt(text) - 1)
RestPart(text) ==
    IF CloseAt(text) = 0 THEN <<>>
    ELSE SubSeq(text, CloseAt(text) + 1, Len(text))

\* C7: for every text with a "[", parse takes the text between the first "["
\* and the first "]" after it (the whole remainder when no "]" follows) as
\* the datastore name and the trimmed text after that "]" as rel_path; the
\* constructor then rejects an empty name with ValueError.
C7_ParseAlgorithm ==
    (/\ call.op = "parse"
     /\ call.args.datastore_path # None
     /\ Contains(The(call.args.datastore_path), "["))
    => LET text == The(call.args.datastore_path)
       IN  IF NamePart(text) = <<>>
           THEN call.raised = "ValueError" /\ call.value = None
           ELSE /\ call.raised = ""
                /\ The(call.value).datastore_name = NamePart(text)
                /\ IsTrimOf(The(call.value).rel_path, RestPart(text))
                /\ CloseAt(text) = 0 => The(call.value).rel_path = <<>>

\* parse of "a[[] ]": text before the first "[" is ignored, the second "["
\* belongs to the name, the name ends at the first "]", the space after it
\* is trimmed and the second "]" is kept in rel_path
C7_Witness ==
    /\ call.op = "parse"
    /\ call.args.datastore_path = Some(<<"a", "[", "[", "]", " ", "]">>)
    /\ call.raised = ""
    /\ The(call.value) = Path(<<"[">>, <<"]">>)

----------------------------------------------------------------------------
(* Vocabulary of the properties about paths *)

StartsWithSep(s) == s # <<>> /\ s[1] = "/"
EndsWithSep(s) == s # <<>> /\ s[Len(s)] = "/"

\* the last call returned a DatastorePath
ReturnedPath ==
    /\ call.op \in {"DatastorePath", "build_path", "join", "parent", "parse"}
    /\ call.raised = ""

\* the last call built a path from components, none of them None
BuiltFromSegments ==
    /\ call.op \in {"DatastorePath", "build_path", "join"}
    /\ ~HasNone(call.args.paths)

\* the segments the Join Algorithm is applied to by the last call
Segments ==
    IF call.op = "join"
    THEN <<The(call.self).rel_path>> \o Unwrap(call.args.paths)
    ELSE Unwrap(call.args.paths)

\* seq without its i-th element
Remove(seq, i) == SubSeq(seq, 1, i - 1) \o SubSeq(seq, i + 1, Len(seq))
Front(seq) == SubSeq(seq, 1, Len(seq) - 1)
Last(seq) == seq[Len(seq)]

\* the rel_path of a path constructed from the segments segs
RelPathOf(segs) ==
    The(DatastorePath_init(Some(<<"d", "s">>),
                           [i \in 1..Len(segs) |-> Some(segs[i])]).value).rel_path

\* The Join Algorithm as the spec words it (POSIX join): the segments from
\* the last absolute one on, glued left to right, a "/" put between the
\* text glued so far and the next segment unless that text is empty or
\* ends in "/".
LastAbsolute(segs) ==
    LET abs == {i \in 1..Len(segs) : StartsWithSep(segs[i])}
    IN  IF abs = {} THEN 1 ELSE CHOOSE i \in abs : \A j \in abs : j <= i

RECURSIVE Glue(_)
Glue(segs) ==
    IF Len(segs) = 1 THEN segs[1]
    ELSE LET front == Glue(Front(segs))
         IN  front \o (IF front = <<>> \/ EndsWithSep(front) THEN <<>> ELSE <<"/">>)
                   \o Last(segs)

JoinAlgorithm(segs) == Glue(SubSeq(segs, LastAbsolute(segs), Len(segs)))

----------------------------------------------------------------------------
(* C2: rel_path is relative *)

\* C2 as stated: no DatastorePath held or returned has a rel_path that
\* begins with "/".
C2_NoLeadingSlash_AsStated ==
    /\ IsPath(obj) => ~StartsWithSep(The(obj).rel_path)
    /\ ReturnedPath => ~StartsWithSep(The(call.value).rel_path)

----------------------------------------------------------------------------
(* C3: join with an absolute component *)

\* C3 as stated: joining one absolute component onto a path keeps nothing of
\* the receiver's rel_path, and DatastorePath("ds", "a/b").join("/c/d") has
\* datastore "ds" and rel_path exactly "c/d".
C3_AbsoluteReset_AsStated ==
    (/\ call.op = "join"
     /\ Len(call.args.paths) = 1
     /\ ~HasNone(call.args.paths)
     /\ StartsWithSep(The(call.args.paths[1])))
    => /\ call.raised = ""
       /\ The(call.value).rel_path
              \in {The(call.args.paths[1]), Tail(The(call.args.paths[1]))}
       /\ (/\ The(call.self) = Path(<<"d", "s">>, <<"a", "/", "b">>)
           /\ call.args.paths = <<Some(<<"/", "c", "/", "d">>)>>)
          => The(call.value) = Path(<<"d", "s">>, <<"c", "/", "d">>)

----------------------------------------------------------------------------
(* C5: join *)

\* C5: p.join() returns a value equal to p; p.join(c1..cn) with n >= 1
\* components, none None, returns a path on p's datastore whose rel_path is
\* the Join Algorithm applied to [p.rel_path, c1, ..., cn]; join raises
\* ValueError when a component is None; p itself is the same afterwards.
C5_Join ==
    call.op = "join"
    => LET p == The(call.self)
           paths == call.args.paths
       IN  /\ paths = <<>>
              => /\ call.raised = ""
                 /\ DatastorePath_eq(The(call.value), p)
           /\ (paths # <<>> /\ ~HasNone(paths))
              => /\ call.raised = ""
                 /\ The(call.value).class = "DatastorePath"
                 /\ The(call.value).datastore_name = p.datastore_name
                 /\ The(call.value).rel_path
                        = JoinAlgorithm(<<p.rel_path>> \o Unwrap(paths))
           /\ HasNone(paths)
              => /\ call.raised = "ValueError"
                 /\ call.value = None
                 /\ obj = call.self
           /\ call.self_after = call.self

\* "a".join("a", "a") on datastore "ds" returned "a/a/a"
C5_Witness ==
    /\ call.op = "join"
    /\ The(call.self) = Path(<<"d", "s">>, <<"a">>)
    /\ call.args.paths = <<Some(<<"a">>), Some(<<"a">>)>>
    /\ The(call.value) = Path(<<"d", "s">>, <<"a", "/", "a", "/", "a">>)

----------------------------------------------------------------------------
(* C6: separators of the Join Algorithm *)

\* a non-empty relative last segment follows the path glued from the
\* segments before it with exactly one "/" between them
OneSeparator ==
    (Segments # <<>> /\ Last(Segments) # <<>> /\ ~StartsWithSep(Last(Segments)))
    => LET front == RelPathOf(Front(Segments))
       IN  The(call.value).rel_path
               = IF front = <<>> THEN Last(Segments)
                 ELSE IF EndsWithSep(front) THEN front \o Last(Segments)
                 ELSE front \o <<"/">> \o Last(Segments)

\* C6 as stated: exactly one "/" between adjacent non-empty segments, and
\* removing an empty-string segment from any position, the last included,
\* leaves the resulting rel_path the same.
C6_Separators_AsStated ==
    BuiltFromSegments
    => /\ call.raised = "" => OneSeparator
       /\ \A i \in 1..Len(Segments) :
             (call.raised = "" /\ Segments[i] = <<>>)
             => RelPathOf(Remove(Segments, i)) = The(call.value).rel_path

\* C6 amended: exactly one "/" between adjacent non-empty segments (none is
\* added after a path that already ends in "/"); removing an empty-string
\* segment from any position but the last leaves the resulting rel_path the
\* same; an empty-string last segment leaves a trailing "/" after the path
\* glued so far unless that path is empty or already ends in "/".
C6_Separators ==
    BuiltFromSegments
    => /\ call.raised = "" => OneSeparator
       /\ \A i \in 1..(Len(Segments) - 1) :
             (call.raised = "" /\ Segments[i] = <<>>)
             => RelPathOf(Remove(Segments, i)) = The(call.value).rel_path
       /\ (call.raised = "" /\ Segments # <<>> /\ Last(Segments) = <<>>)
          => LET front == RelPathOf(Front(Segments))
             IN  The(call.value).rel_path
                     = IF front = <<>> \/ EndsWithSep(front) THEN front
                       ELSE front \o <<"/">>

\* "a".join("", "a") returned "a/a": the empty segment in the middle added
\* no separator of its own
C6_Witness ==
    /\ call.op = "join"
    /\ The(call.self).rel_path = <<"a">>
    /\ call.args.paths = <<Some(<<>>), Some(<<"a">>)>>
    /\ call.raised = ""
    /\ The(call.value).rel_path = <<"a", "/", "a">>

----------------------------------------------------------------------------
(* C8: construction of a DatastorePath *)

\* C8: DatastorePath(datastore_name, *paths) raises ValueError exactly when
\* datastore_name is None or '' or a component is None, and otherwise
\* returns a path; every DatastorePath held or returned has a non-empty
\* datastore name.
C8_Construction ==
    /\ call.op = "DatastorePath"
       => /\ call.raised = "ValueError"
             <=> \/ call.args.datastore_name = None
                 \/ call.args.datastore_name = Some(<<>>)
                 \/ HasNone(call.args.paths)
          /\ call.raised \in {"", "ValueError"}
          /\ call.raised = "" <=> call.value # None
          /\ call.raised = "" => The(call.value).class = "DatastorePath"
    /\ IsPath(obj) => The(obj).datastore_name # <<>>
    /\ ReturnedPath => The(call.value).datastore_name # <<>>

\* DatastorePath("ds", "a", None) raised ValueError
C8_Witness ==
    /\ call.op = "DatastorePath"
    /\ call.args.datastore_name = Some(<<"d", "s">>)
    /\ call.args.paths = <<Some(<<"a">>), None>>
    /\ call.raised = "ValueError"

----------------------------------------------------------------------------
(* C9: construction of a Datastore *)

\* C9: Datastore(ref, name, capacity, freespace) raises ValueError exactly
\* when name is None, or ref is None, or freespace is given without
\* capacity, or both are given and capacity < freespace; a Datastore that
\* exists stores the arguments it was given, has capacity whenever it has
\* freespace and capacity >= freespace when it has both; the properties
\* return the stored values.
C9_Datastore ==
    /\ call.op = "Datastore"
       => LET a == call.args
          IN  /\ call.raised = "ValueError"
                 <=> \/ a.name = None
                     \/ a.ref = None
                     \/ (a.freespace # None /\ a.capacity = None)
                     \/ (/\ a.capacity # None
                         /\ a.freespace # None
                         /\ The(a.capacity) < The(a.freespace))
              /\ call.raised \in {"", "ValueError"}
              /\ call.raised = "" <=> call.value # None
              /\ call.raised = ""
                 => /\ Some(The(call.value).ref) = a.ref
                    /\ Some(The(call.value).name) = a.name
                    /\ The(call.value).capacity = a.capacity
                    /\ The(call.value).freespace = a.freespace
    /\ IsDatastore(obj)
       => /\ The(obj).freespace # None => The(obj).capacity # None
          /\ (The(obj).capacity # None /\ The(obj).freespace # None)
             => The(The(obj).capacity) >= The(The(obj).freespace)
    /\ call.op = "ref" => call.value = Some(The(obj).ref)
    /\ call.op = "name" => call.value = Some(The(obj).name)
    /\ call.op = "capacity" => call.value = The(obj).capacity
    /\ call.op = "freespace" => call.value = The(obj).freespace
    /\ call.op \in {"ref", "name", "capacity", "freespace"}
       => call.raised = "" /\ call.self_after = call.self

\* Datastore(ref, "ds", capacity=0, freespace=1) raised ValueError
C9_Witness ==
    /\ call.op = "Datastore"
    /\ call.args = [ref |-> Some("datastore-1"), name |-> Some(<<"d", "s">>),
                    capacity |-> Some(0), freespace |-> Some(1)]
    /\ call.raised = "ValueError"

----------------------------------------------------------------------------
(* C10: build_path *)

\* the path build_path is to return: on the datastore named by the
\* receiver, the components joined under it
RootedAtReceiver ==
    /\ call.raised = ""
    /\ The(call.value).class = "DatastorePath"
    /\ The(call.value).datastore_name = The(call.self).name
    /\ The(call.value).rel_path
           = IF call.args.paths = <<>> THEN <<>>
             ELSE JoinAlgorithm(Unwrap(call.args.paths))
    /\ DatastorePath_eq(The(call.value),
                        The(DatastorePath_init(Some(The(call.self).name),
                                               call.args.paths).value))

\* C10 as stated: for every Datastore d and all components, none None,
\* d.build_path(components...) returns the DatastorePath rooted at d.name,
\* equal to DatastorePath(d.name, components...).
C10_BuildPath_AsStated ==
    (call.op = "build_path" /\ ~HasNone(call.args.paths))
    => RootedAtReceiver

\* C10 amended: for every Datastore d with a non-empty name and all
\* components, none None, d.build_path(components...) returns the
\* DatastorePath rooted at d.name, equal to DatastorePath(d.name,
\* components...); when d.name is '' build_path raises ValueError.
C10_BuildPath ==
    (call.op = "build_path" /\ ~HasNone(call.args.paths))
    => IF The(call.self).name # <<>>
       THEN RootedAtReceiver
       ELSE call.raised = "ValueError" /\ call.value = None

\* Datastore(ref, "ds").build_path("a/b", "a") returned "[ds] a/b/a"
C10_Witness ==
    /\ call.op = "build_path"
    /\ The(call.self).name = <<"d", "s">>
    /\ call.args.paths = <<Some(<<"a", "/", "b">>), Some(<<"a">>)>>
    /\ call.raised = ""
    /\ The(call.value) = Path(<<"d", "s">>, <<"a", "/", "b", "/", "a">>)

----------------------------------------------------------------------------
(* C11: parent, basename and dirname *)

\* the final "/"-delimited segment of rel: the text after its last "/"
FinalSegment(rel) ==
    CHOOSE b \in {SubSeq(rel, i, Len(rel)) : i \in 1..(Len(rel) + 1)} :
        /\ ~Contains(b, "/")
        /\ Len(b) < Len(rel) => rel[Len(rel) - Len(b)] = "/"

\* rel up to but excluding its final segment and the separators before it;
\* a prefix made of "/" alone is kept whole (POSIX dirname)
DirectoryPart(rel) ==
    LET head == SubSeq(rel, 1, Len(rel) - Len(FinalSegment(rel)))
        cut == {i \in 0..Len(head) :
                   /\ \A j \in (i + 1)..Len(head) : head[j] = "/"
                   /\ i > 0 => head[i] # "/"}
    IN  IF \A j \in 1..Len(head) : head[j] = "/" THEN head
        ELSE SubSeq(head, 1, CHOOSE i \in cut : TRUE)

\* C11: p.dirname is rel_path up to but excluding its final "/"-delimited
\* segment ("" when rel_path has no "/"), p.basename is that final segment
\* ("" for the root), and p.parent equals
\* DatastorePath(p.datastore, p.dirname), p itself staying as it was.
C11_ParentBasenameDirname ==
    /\ call.op = "dirname"
       => /\ call.value = Some(DirectoryPart(The(call.self).rel_path))
          /\ ~Contains(The(call.self).rel_path, "/") => call.value = Some(<<>>)
    /\ call.op = "basename"
       => /\ call.value = Some(FinalSegment(The(call.self).rel_path))
          /\ The(call.self).rel_path = <<>> => call.value = Some(<<>>)
    /\ call.op = "parent"
       => /\ call.raised = ""
          /\ The(call.value).class = "DatastorePath"
          /\ The(call.value).datastore_name = The(call.self).datastore_name
          /\ The(call.value).rel_path = DirectoryPart(The(call.self).rel_path)
          /\ DatastorePath_eq(
                 The(call.value),
                 The(DatastorePath_init(
                         Some(The(call.self).datastore_name),
                         <<Some(DirectoryPart(The(call.self).rel_path))>>).value))
    /\ call.op \in {"dirname", "basename", "parent"}
       => call.self_after = call.self

\* DatastorePath("ds", "a/b/c.txt").parent returned DatastorePath("ds", "a/b")
C11_Witness ==
    /\ call.op = "parent"
    /\ The(call.self)
           = Path(<<"d", "s">>, <<"a", "/", "b", "/", "c", ".", "t", "x", "t">>)
    /\ The(call.value) = Path(<<"d", "s">>, <<"a", "/", "b">>)

----------------------------------------------------------------------------
(* C12: canonical rendering *)

\* text is "[" name "]" followed by tail
Bracketed(text, name, tail) ==
    /\ Len(text) = Len(name) + 2 + Len(tail)
    /\ text[1] = "["
    /\ \A i \in 1..Len(name) : text[1 + i] = name[i]
    /\ text[Len(name) + 2] = "]"
    /\ \A i \in 1..Len(tail) : text[Len(name) + 2 + i] = tail[i]

\* C12: str(p) is "[<datastore_name>]" when rel_path is empty and otherwise
\* "[<datastore_name>] <rel_path>", exactly one space after the closing
\* bracket.
C12_CanonicalRendering ==
    call.op = "__str__"
    => /\ call.raised = ""
       /\ LET p == The(call.self)
              text == The(call.value)
          IN  IF p.rel_path = <<>>
              THEN Bracketed(text, p.datastore_name, <<>>)
              ELSE Bracketed(text, p.datastore_name, <<" ">> \o p.rel_path)

\* str(DatastorePath("datastore1", "_base/foo", "foo.vmdk")) returned
\* "[datastore1] _base/foo/foo.vmdk"
C12_Witness ==
    /\ call.op = "__str__"
    /\ The(call.self)
           = Path(<<"d", "a", "t", "a", "s", "t", "o", "r", "e", "1">>,
                  <<"_", "b", "a", "s", "e", "/", "f", "o", "o", "/",
                    "f", "o", "o", ".", "v", "m", "d", "k">>)
    /\ The(call.value)
           = <<"[", "d", "a", "t", "a", "s", "t", "o", "r", "e", "1", "]", " ",
               "_", "b", "a", "s", "e", "/", "f", "o", "o", "/",
               "f", "o", "o", ".", "v", "m", "d", "k">>

----------------------------------------------------------------------------
(* C13: equality *)

\* C13: two DatastorePath values are equal if and only if their
\* datastore_name and rel_path are exactly equal, nothing being normalized for
\* the comparison, and comparing a DatastorePath with a value of any other
\* type yields false, never an error.
C13_StructuralEquality ==
    call.op = "__eq__"
    => /\ call.raised = ""
       /\ call.self_after = call.self
       /\ LET p == The(call.self)
              other == call.args[1]
          IN  IF other.class = "DatastorePath"
              THEN call.value = Some(/\ other.datastore_name = p.datastore_name
                                     /\ other.rel_path = p.rel_path)
              ELSE call.value = Some(FALSE)

\* DatastorePath("ds", "a") == DatastorePath("ds", "a/") returned False
C13_Witness ==
    /\ call.op = "__eq__"
    /\ The(call.self) = Path(<<"d", "s">>, <<"a">>)
    /\ call.args[1] = Path(<<"d", "s">>, <<"a", "/">>)
    /\ call.value = Some(FALSE)

----------------------------------------------------------------------------
(* C14: the parent chain *)

RECURSIVE Ancestor(_, _)
\* the path n parent steps above p
Ancestor(p, n) ==
    IF n = 0 THEN p ELSE The(parent(Ancestor(p, n - 1)).value)

\* dirname returns a prefix of rel_path, so a parent step that does not shorten
\* rel_path returns the path itself and no later step leaves it: a chain that
\* reaches the root at all reaches it within Len(rel_path) steps
ReachesRoot(p) ==
    \E n \in 0..Len(p.rel_path) : Ancestor(p, n).rel_path = <<>>

\* C14: from any DatastorePath, taking .parent repeatedly reaches the
\* datastore root (rel_path "") after finitely many steps, every step keeps
\* the datastore_name, and the parent of the root is the root.
C14_ParentChain_AsStated ==
    /\ IsPath(obj) => ReachesRoot(The(obj))
    /\ call.op = "parent"
       => /\ call.raised = ""
          /\ The(call.value).datastore_name = The(call.self).datastore_name
          /\ The(call.self).rel_path = <<>> => call.value = call.self

====
